---------------------------- MODULE Spec2Model ----------------------------
(***************************************************************************)
(* Loan payment functions of code/module-03/m03-start/module03.ts.         *)
(*                                                                         *)
(* The functions compute with JavaScript Numbers, that is IEEE 754         *)
(* binary64 values, and return a display string built with                 *)
(* Number.prototype.toFixed(2).  The model computes with binary64 values   *)
(* too: a finite non-zero Number is a sign, a 53-bit significand and an    *)
(* exponent, the significand kept as a sequence of 15-bit limbs (least     *)
(* significant first) so that every operation is computed exactly and then *)
(* rounded once, to nearest, ties to even, as the language requires.       *)
(* Math.pow is "implementation-approximated" in ECMAScript: the model      *)
(* lets the build choose, once, whether it returns the binary64 value just *)
(* below or just above the exact power (the same value when the power is   *)
(* representable).                                                         *)
(***************************************************************************)
EXTENDS Integers, Sequences, FiniteSets, TLC

(***************************************************************************)
(* Natural numbers of any size: sequences of limbs, least significant      *)
(* first, without high zero limbs; zero is the empty sequence.             *)
(***************************************************************************)
LimbBits == 15
Base == 32768

RECURSIVE Trim(_)
Trim(a) ==
    IF a = <<>> THEN a
    ELSE IF a[Len(a)] = 0 THEN Trim(SubSeq(a, 1, Len(a) - 1)) ELSE a

RECURSIVE NatToBig(_)
NatToBig(n) == IF n = 0 THEN <<>> ELSE <<n % Base>> \o NatToBig(n \div Base)

Limb(a, i) == IF i <= Len(a) THEN a[i] ELSE 0

RECURSIVE CmpFrom(_, _, _)
CmpFrom(a, b, i) ==
    IF i = 0 THEN 0
    ELSE IF a[i] < b[i] THEN -1
    ELSE IF a[i] > b[i] THEN 1
    ELSE CmpFrom(a, b, i - 1)

\* -1, 0 or 1 as a < b, a = b or a > b
BigCmp(a, b) ==
    IF Len(a) < Len(b) THEN -1
    ELSE IF Len(a) > Len(b) THEN 1
    ELSE CmpFrom(a, b, Len(a))

RECURSIVE AddFrom(_, _, _, _)
AddFrom(a, b, i, c) ==
    IF i > Len(a) /\ i > Len(b)
    THEN IF c = 0 THEN <<>> ELSE <<c>>
    ELSE LET x == Limb(a, i) + Limb(b, i) + c
         IN  <<x % Base>> \o AddFrom(a, b, i + 1, x \div Base)

BigAdd(a, b) == AddFrom(a, b, 1, 0)

RECURSIVE SubFrom(_, _, _, _)
SubFrom(a, b, i, c) ==
    IF i > Len(a) THEN <<>>
    ELSE LET x == a[i] - Limb(b, i) - c
         IN  IF x < 0 THEN <<x + Base>> \o SubFrom(a, b, i + 1, 1)
                      ELSE <<x>> \o SubFrom(a, b, i + 1, 0)

\* a - b for a >= b
BigSub(a, b) == Trim(SubFrom(a, b, 1, 0))

RECURSIVE MulSmallFrom(_, _, _, _)
MulSmallFrom(a, k, i, c) ==
    IF i > Len(a)
    THEN IF c = 0 THEN <<>> ELSE <<c>>
    ELSE LET x == a[i] * k + c
         IN  <<x % Base>> \o MulSmallFrom(a, k, i + 1, x \div Base)

\* a * k for 0 <= k < Base
BigMulSmall(a, k) == IF k = 0 THEN <<>> ELSE MulSmallFrom(a, k, 1, 0)

Zeros(n) == [i \in 1..n |-> 0]

\* (In the recursions below that carry a sum, a remainder or a quotient along,
\* the test on the new value only fixes the order of evaluation: the step is
\* computed before the next one starts.)
RECURSIVE MulFrom(_, _, _, _)
MulFrom(a, b, j, acc) ==
    IF j > Len(b) THEN acc
    ELSE LET sum == BigAdd(acc, Zeros(j - 1) \o BigMulSmall(a, b[j]))
         IN  IF Len(sum) >= 0 THEN MulFrom(a, b, j + 1, sum) ELSE <<>>

BigMul(a, b) == IF a = <<>> \/ b = <<>> THEN <<>> ELSE Trim(MulFrom(a, b, 1, <<>>))

RECURSIVE DivSmallFrom(_, _, _, _, _)
DivSmallFrom(a, k, i, r, acc) ==
    IF i = 0 THEN acc
    ELSE LET x  == r * Base + a[i]
             q1 == <<x \div k>> \o acc
         IN  IF Len(q1) > 0 THEN DivSmallFrom(a, k, i - 1, x % k, q1) ELSE <<>>

\* floor(a / k) for 0 < k < Base
BigDivSmall(a, k) == Trim(DivSmallFrom(a, k, Len(a), 0, <<>>))

RECURSIVE ModSmallFrom(_, _, _, _)
ModSmallFrom(a, k, i, r) ==
    IF i = 0 THEN r
    ELSE LET x == (r * Base + a[i]) % k
         IN  IF x >= 0 THEN ModSmallFrom(a, k, i - 1, x) ELSE 0

\* a mod k for 0 < k < Base
BigModSmall(a, k) == ModSmallFrom(a, k, Len(a), 0)

\* a * 2^n
Shl(a, n) ==
    IF a = <<>> THEN <<>>
    ELSE Zeros(n \div LimbBits) \o BigMulSmall(a, 2 ^ (n % LimbBits))

\* floor(a / 2^n)
Shr(a, n) ==
    IF n \div LimbBits >= Len(a) THEN <<>>
    ELSE BigDivSmall(SubSeq(a, n \div LimbBits + 1, Len(a)), 2 ^ (n % LimbBits))

\* a mod 2^n
LowBits(a, n) ==
    LET w == n \div LimbBits
    IN  IF w >= Len(a) THEN a
        ELSE Trim(SubSeq(a, 1, w) \o <<a[w + 1] % (2 ^ (n % LimbBits))>>)

RECURSIVE SmallBitLen(_)
SmallBitLen(x) == IF x = 0 THEN 0 ELSE 1 + SmallBitLen(x \div 2)

\* the number of bits of a: 0 for zero, else floor(log2 a) + 1
BitLen(a) ==
    IF a = <<>> THEN 0 ELSE LimbBits * (Len(a) - 1) + SmallBitLen(a[Len(a)])

IsOdd(a) == a # <<>> /\ a[1] % 2 = 1

\* One step of long division: r < d * Base, d's top limb >= Base / 2.
\* The quotient limb estimated from the top limbs is at most 2 too large.
RECURSIVE FixQ(_, _, _)
FixQ(r, d, q) ==
    IF BigCmp(BigMulSmall(d, q), r) > 0 THEN FixQ(r, d, q - 1) ELSE q

QLimb(r, d) ==
    LET n == Len(d)
        est == (Limb(r, n + 1) * Base + Limb(r, n)) \div d[n]
    IN  FixQ(r, d, IF est > Base - 1 THEN Base - 1 ELSE est)

\* <<quotient limbs (least significant first), remainder>> of a / d: limb i of
\* a and those below it are still to be brought down, r is the remainder and
\* acc the quotient so far.
RECURSIVE DivFrom(_, _, _, _, _)
DivFrom(a, d, i, r, acc) ==
    IF i = 0 THEN <<acc, r>>
    ELSE LET r1 == Trim(<<a[i]>> \o r)
             q1 == QLimb(r1, d)
             r2 == BigSub(r1, BigMulSmall(d, q1))
             q2 == <<q1>> \o acc
         IN  IF Len(q2) > 0 /\ Len(r2) >= 0
             THEN DivFrom(a, d, i - 1, r2, q2)
             ELSE <<>>

\* <<floor(a / d), a mod d>> for d > 0
BigDivMod(a, d) ==
    LET sh  == (LimbBits - SmallBitLen(d[Len(d)]))
        res == DivFrom(Shl(a, sh), Shl(d, sh), Len(Shl(a, sh)), <<>>, <<>>)
    IN  <<Trim(res[1]), Shr(res[2], sh)>>

(***************************************************************************)
(* JavaScript values.  A Number (IEEE 754 binary64) has k "nan", "inf",     *)
(* "zero" or "fin"; a "fin" value is (-1)^s * m * 2^e with 0 < m < 2^53,   *)
(* and either m has 53 bits or e = EMin (a subnormal).  A string has k     *)
(* "string" and its text in t; undefined has k "undefined".                *)
(***************************************************************************)
Precision == 53
EMin == -1074
EMax == 971
\* more binary places than two significands span
Far == 120

NaN == [k |-> "nan", s |-> 0, m |-> <<>>, e |-> 0, t |-> ""]
Inf(s) == [k |-> "inf", s |-> s, m |-> <<>>, e |-> 0, t |-> ""]
Zero(s) == [k |-> "zero", s |-> s, m |-> <<>>, e |-> 0, t |-> ""]
Fin(s, m, e) == [k |-> "fin", s |-> s, m |-> m, e |-> e, t |-> ""]
Str(t) == [k |-> "string", s |-> 0, m |-> <<>>, e |-> 0, t |-> t]
Undefined == [k |-> "undefined", s |-> 0, m |-> <<>>, e |-> 0, t |-> ""]

Max(a, b) == IF a > b THEN a ELSE b
Min(a, b) == IF a < b THEN a ELSE b
Xor(a, b) == (a + b) % 2

\* The binary64 value of (-1)^s * (M * 2^E + eps), where M > 0, and 0 < eps < 2^E
\* if sticky (then M has at least Precision + 2 bits) and eps = 0 otherwise.
\* mode "even" is the rounding of the language's arithmetic; "down" and "up"
\* round the magnitude towards zero and away from it.
RoundTo(mode, s, M, E, sticky) ==
    LET L  == BitLen(M)
        sh == Max(L - Precision, EMin - E)
    IN  IF sh <= 0
        THEN LET t == Min(Precision - L, E - EMin)
             IN  IF E - t > EMax THEN (IF mode = "down" THEN Fin(s, BigSub(Shl(<<1>>, Precision), <<1>>), EMax) ELSE Inf(s))
                 ELSE Fin(s, Shl(M, t), E - t)
        ELSE LET q    == Shr(M, sh)
                 low  == LowBits(M, sh)
                 c    == BigCmp(low, Shl(<<1>>, sh - 1))
                 up   == CASE mode = "even" -> c > 0 \/ (c = 0 /\ (sticky \/ IsOdd(q)))
                          [] mode = "down" -> FALSE
                          [] mode = "up"   -> low # <<>> \/ sticky
                 q2   == IF up THEN BigAdd(q, <<1>>) ELSE q
                 over == BitLen(q2) > Precision
                 m2   == IF over THEN Shr(q2, 1) ELSE q2
                 e2   == IF over THEN E + sh + 1 ELSE E + sh
             IN  IF m2 = <<>> THEN Zero(s)
                 ELSE IF e2 > EMax
                      THEN (IF mode = "down" THEN Fin(s, BigSub(Shl(<<1>>, Precision), <<1>>), EMax) ELSE Inf(s))
                      ELSE Fin(s, m2, e2)

\* the Number denoted by an integer literal n
FromInt(n) ==
    IF n = 0 THEN Zero(0)
    ELSE IF n < 0 THEN RoundTo("even", 1, NatToBig(-n), 0, FALSE)
    ELSE RoundTo("even", 0, NatToBig(n), 0, FALSE)

FNeg(a) == [a EXCEPT !.s = IF a.k = "nan" THEN 0 ELSE 1 - a.s]

\* a * b
FMul(a, b) ==
    IF a.k = "nan" \/ b.k = "nan" THEN NaN
    ELSE IF (a.k = "inf" /\ b.k = "zero") \/ (a.k = "zero" /\ b.k = "inf") THEN NaN
    ELSE IF a.k = "inf" \/ b.k = "inf" THEN Inf(Xor(a.s, b.s))
    ELSE IF a.k = "zero" \/ b.k = "zero" THEN Zero(Xor(a.s, b.s))
    ELSE RoundTo("even", Xor(a.s, b.s), BigMul(a.m, b.m), a.e + b.e, FALSE)

\* the quotient of two finite non-zero values, rounded as mode says
DivFin(mode, a, b) ==
    LET sh == 60 + BitLen(b.m) - BitLen(a.m)
        qr == BigDivMod(Shl(a.m, sh), b.m)
    IN  RoundTo(mode, Xor(a.s, b.s), qr[1], a.e - b.e - sh, qr[2] # <<>>)

\* a / b
FDiv(a, b) ==
    IF a.k = "nan" \/ b.k = "nan" THEN NaN
    ELSE IF (a.k = "inf" /\ b.k = "inf") \/ (a.k = "zero" /\ b.k = "zero") THEN NaN
    ELSE IF a.k = "inf" \/ b.k = "zero" THEN Inf(Xor(a.s, b.s))
    ELSE IF a.k = "zero" \/ b.k = "inf" THEN Zero(Xor(a.s, b.s))
    ELSE DivFin("even", a, b)

\* a + b
FAdd(a, b) ==
    IF a.k = "nan" \/ b.k = "nan" THEN NaN
    ELSE IF a.k = "inf" /\ b.k = "inf" THEN (IF a.s = b.s THEN a ELSE NaN)
    ELSE IF a.k = "inf" THEN a
    ELSE IF b.k = "inf" THEN b
    ELSE IF a.k = "zero" /\ b.k = "zero" THEN Zero(IF a.s = 1 /\ b.s = 1 THEN 1 ELSE 0)
    ELSE IF a.k = "zero" THEN b
    ELSE IF b.k = "zero" THEN a
    ELSE LET \* an operand more than Far binary places below the other only
             \* decides the direction of rounding: any such value does the same
             ae == IF b.e - a.e > Far THEN b.e - Far ELSE a.e
             be == IF a.e - b.e > Far THEN a.e - Far ELSE b.e
             am == IF b.e - a.e > Far THEN <<1>> ELSE a.m
             bm == IF a.e - b.e > Far THEN <<1>> ELSE b.m
             e  == Min(ae, be)
             A  == Shl(am, ae - e)
             B  == Shl(bm, be - e)
             c  == BigCmp(A, B)
         IN  IF a.s = b.s THEN RoundTo("even", a.s, BigAdd(A, B), e, FALSE)
             ELSE IF c = 0 THEN Zero(0)
             ELSE IF c > 0 THEN RoundTo("even", a.s, BigSub(A, B), e, FALSE)
             ELSE RoundTo("even", b.s, BigSub(B, A), e, FALSE)

\* a - b
FSub(a, b) == FAdd(a, FNeg(b))

(***************************************************************************)
(* Math.pow(base, n) for an integral exponent n.  The exact power is       *)
(* enclosed between two values computed by repeated squaring with          *)
(* Work-bit significands, truncated downwards for the lower and upwards    *)
(* for the upper one; the result is the binary64 value below the lower     *)
(* (libm = "down") or above the upper one (libm = "up").                   *)
(***************************************************************************)
Work == 120

\* <<M, E>> with at most Work bits, not above (up = FALSE) or not below <<M, E>>
Trunc(up, M, E) ==
    LET sh == BitLen(M) - Work
    IN  IF sh <= 0 THEN <<M, E>>
        ELSE IF up /\ LowBits(M, sh) # <<>>
             THEN <<BigAdd(Shr(M, sh), <<1>>), E + sh>>
             ELSE <<Shr(M, sh), E + sh>>

MulTrunc(up, a, b) == Trunc(up, BigMul(a[1], b[1]), a[2] + b[2])

\* the bits of n, most significant first
RECURSIVE Bits(_)
Bits(n) == IF n = 0 THEN <<>> ELSE Bits(n \div 2) \o <<n % 2>>

\* Square and multiply over the bits of the exponent from position i on; acc is
\* the power for the bits before i.
RECURSIVE PowFrom(_, _, _, _, _)
PowFrom(up, x, bs, i, acc) ==
    IF i > Len(bs) THEN acc
    ELSE LET sq  == MulTrunc(up, acc, acc)
             nxt == IF bs[i] = 1 THEN MulTrunc(up, sq, x) ELSE sq
         IN  IF Len(nxt[1]) > 0 THEN PowFrom(up, x, bs, i + 1, nxt) ELSE <<>>

\* a bound of x^n for n >= 1: not above it (up = FALSE) or not below it
PowBound(up, x, n) == PowFrom(up, x, Bits(n), 2, x)

\* Number::exponentiate(base, n), n an integer
MathPow(libm, base, n) ==
    LET odd  == n % 2 = 1
        sign == IF odd THEN base.s ELSE 0
        abs  == IF n < 0 THEN -n ELSE n
    IN  IF n = 0 THEN FromInt(1)
        ELSE IF base.k = "nan" THEN NaN
        ELSE IF base.k = "inf" THEN (IF n > 0 THEN Inf(sign) ELSE Zero(sign))
        ELSE IF base.k = "zero" THEN (IF n > 0 THEN Zero(sign) ELSE Inf(sign))
        ELSE LET lo == PowBound(FALSE, <<base.m, base.e>>, abs)
                 hi == PowBound(TRUE, <<base.m, base.e>>, abs)
             IN  IF n > 0
                 THEN IF libm = "down" THEN RoundTo("down", sign, lo[1], lo[2], FALSE)
                                       ELSE RoundTo("up", sign, hi[1], hi[2], FALSE)
                 ELSE LET den  == IF libm = "down" THEN hi ELSE lo
                          bits == BitLen(den[1]) + 60
                          quot == BigDivMod(Shl(<<1>>, bits), den[1])
                      IN  RoundTo(libm, sign, quot[1], 0 - bits - den[2], quot[2] # <<>>)

(***************************************************************************)
(* Number.prototype.toFixed(2): n is the integer for which n / 100 - x is  *)
(* as close to zero as possible, the larger one if there are two; the      *)
(* digits of n are written with a point before the last two.               *)
(***************************************************************************)
Digit(d) == <<"0", "1", "2", "3", "4", "5", "6", "7", "8", "9">>[d + 1]

RECURSIVE DecStr(_)
DecStr(n) ==
    IF Len(n) <= 1 /\ Limb(n, 1) < 10 THEN Digit(Limb(n, 1))
    ELSE DecStr(BigDivSmall(n, 10)) \o Digit(BigModSmall(n, 10))

\* 10^21 = 5^21 * 2^21
Ten21 == Shl(BigMul(NatToBig(48828125), BigMul(NatToBig(390625), NatToBig(25))), 21)

\* Hundredths with the digits after the second decimal cut off
Hundredths_Truncated(m, e) ==
    LET c == BigMulSmall(m, 100)
    IN  IF e >= 0 THEN Shl(c, e)
        ELSE IF BitLen(c) + e < 0 THEN <<>>
        ELSE Shr(c, 0 - e)

\* the integer nearest to m * 2^e * 100, the larger of two
Hundredths(m, e) ==
    LET c == BigMulSmall(m, 100)
    IN  IF e >= 0 THEN Shl(c, e)
        ELSE IF BitLen(c) + e < 0 THEN <<>>
        ELSE Shr(BigAdd(c, Shl(<<1>>, (0 - e) - 1)), 0 - e)

ToFixed2(x) ==
    IF x.k = "nan" THEN "NaN"
    ELSE IF x.k = "inf" THEN (IF x.s = 1 THEN "-Infinity" ELSE "Infinity")
    ELSE IF x.k = "zero" THEN "0.00"
    ELSE IF x.e >= 17 /\ (x.e > 70 \/ BigCmp(Shl(x.m, x.e), Ten21) >= 0) THEN "exponential"
    ELSE LET n == Hundredths(x.m, x.e)
             whole == BigDivSmall(n, 100)
             cents == BigModSmall(n, 100)
         IN  (IF x.s = 1 THEN "-" ELSE "") \o DecStr(whole) \o "."
                 \o Digit(cents \div 10) \o Digit(cents % 10)

(***************************************************************************)
(* The two functions, statement by statement.                              *)
(***************************************************************************)
RateDivisor == 1200

\* MonthlyRate with the rate taken as a fraction per year, not as percent
MonthlyRate_AsFraction(interestRate) == FDiv(interestRate, FromInt(12))

\* line 24 and line 38: let interest = interestRate / 1200
MonthlyRate(interestRate) == FDiv(interestRate, FromInt(RateDivisor))

\* line 26: payment = principle * interest
InterestOnlyPayment(principle, interest) == FMul(principle, interest)

\* ConventionalPayment with Math.pow(1 + interest, months): the reciprocal left out
ConventionalPayment_NoReciprocal(libm, principle, interest, months) ==
    FDiv(FMul(principle, interest),
         FSub(FromInt(1), MathPow(libm, FAdd(FromInt(1), interest), months)))

\* ConventionalPayment with 1 + Math.pow(..) in the divisor
ConventionalPayment_PlusPow(libm, principle, interest, months) ==
    FDiv(FMul(principle, interest),
         FAdd(FromInt(1),
              MathPow(libm, FDiv(FromInt(1), FAdd(FromInt(1), interest)), months)))

\* ConventionalPayment with the divisor Math.pow(..) alone, "1 -" left out
ConventionalPayment_NoOneMinus(libm, principle, interest, months) ==
    FDiv(FMul(principle, interest),
         MathPow(libm, FDiv(FromInt(1), FAdd(FromInt(1), interest)), months))

\* line 40: payment = (principle * interest) / (1 - Math.pow(1 / (1 + interest), months))
ConventionalPayment(libm, principle, interest, months) ==
    FDiv(FMul(principle, interest),
         FSub(FromInt(1),
              MathPow(libm, FDiv(FromInt(1), FAdd(FromInt(1), interest)), months)))

\* InterestOnlyText returning the payment itself, unrounded and without a label
InterestOnlyText_Unrounded(payment) == payment

\* line 27: return "The interest only loan payment is " + payment.toFixed(2)
InterestOnlyText(payment) == Str("The interest only loan payment is " \o ToFixed2(payment))

\* line 41: return "The conventional loan payment is " + payment.toFixed(2)
ConventionalText(payment) == Str("The conventional loan payment is " \o ToFixed2(payment))

(***************************************************************************)
(* The arguments the functions are called with.  The script calls them     *)
(* with principle 30000, interest 5 and months 180; the model calls them   *)
(* with these and with small values around the edges of the domain.        *)
(***************************************************************************)
LabPrinciple == 30000
LabInterest == 5
LabMonths == 180
MaxPrinciple == 3
MaxInterest == 5
MaxMonths == 3

Principles == (-1 .. MaxPrinciple) \cup {LabPrinciple}
Interests == (-1 .. MaxInterest) \cup {LabInterest, RateDivisor}
MonthsSet == (-1 .. MaxMonths) \cup {LabMonths}

VARIABLES
    libm,                 \* how this build's Math.pow rounds: "down" or "up"
    input,                \* the arguments of this run: integers p, r, n
    pc,                   \* the line of module03.ts about to be executed
    principle,            \* the parameters and locals of the function being
    interestRate,         \*   executed (Undefined outside a call and before
    months,               \*   their statement); months is an integer
    interest,
    payment,
    interestOnlyPayment,  \* the script's variables: the strings returned
    conventionalPayment,
    console               \* the lines written by console.log, as text

vars == <<libm, input, pc, principle, interestRate, months, interest, payment,
          interestOnlyPayment, conventionalPayment, console>>

locals == <<principle, interestRate, months, interest, payment>>
globals == <<interestOnlyPayment, conventionalPayment, console>>

Init ==
    /\ libm \in {"down", "up"}
    /\ input \in [p : Principles, r : Interests, n : MonthsSet]
    /\ pc = "L44"
    /\ principle = Undefined
    /\ interestRate = Undefined
    /\ months = 0
    /\ interest = Undefined
    /\ payment = Undefined
    /\ interestOnlyPayment = Undefined
    /\ conventionalPayment = Undefined
    /\ console = <<>>

\* line 44: calculateInterestOnlyLoanPayment({principle: .., interest: ..}) is entered
CallInterestOnly ==
    /\ pc = "L44"
    /\ principle' = FromInt(input.p)
    /\ interestRate' = FromInt(input.r)
    /\ months' = 0
    /\ interest' = Undefined
    /\ payment' = Undefined
    /\ pc' = "L24"
    /\ UNCHANGED <<libm, input, globals>>

InterestOnlyRate ==
    /\ pc = "L24"
    /\ interest' = MonthlyRate(interestRate)
    /\ pc' = "L26"
    /\ UNCHANGED <<libm, input, principle, interestRate, months, payment, globals>>

InterestOnlyPay ==
    /\ pc = "L26"
    /\ payment' = InterestOnlyPayment(principle, interest)
    /\ pc' = "L27"
    /\ UNCHANGED <<libm, input, principle, interestRate, months, interest, globals>>

\* InterestOnlyReturn building its result in a string shared between the calls
InterestOnlyReturn_SharedBuffer ==
    /\ pc = "L27"
    /\ interestOnlyPayment' = Str(interestOnlyPayment.t \o InterestOnlyText(payment).t)
    /\ principle' = Undefined
    /\ interestRate' = Undefined
    /\ months' = 0
    /\ interest' = Undefined
    /\ payment' = Undefined
    /\ pc' = "L48"
    /\ UNCHANGED <<libm, input, conventionalPayment, console>>

\* line 27 returns; line 44 stores the string
InterestOnlyReturn ==
    /\ pc = "L27"
    /\ interestOnlyPayment' = InterestOnlyText(payment)
    /\ principle' = Undefined
    /\ interestRate' = Undefined
    /\ months' = 0
    /\ interest' = Undefined
    /\ payment' = Undefined
    /\ pc' = "L48"
    /\ UNCHANGED <<libm, input, conventionalPayment, console>>

\* line 48: calculateConventionalLoanPayment({principle: .., interest: .., months: ..})
CallConventional ==
    /\ pc = "L48"
    /\ principle' = FromInt(input.p)
    /\ interestRate' = FromInt(input.r)
    /\ months' = input.n
    /\ interest' = Undefined
    /\ payment' = Undefined
    /\ pc' = "L38"
    /\ UNCHANGED <<libm, input, globals>>

ConventionalRate ==
    /\ pc = "L38"
    /\ interest' = MonthlyRate(interestRate)
    /\ pc' = "L40"
    /\ UNCHANGED <<libm, input, principle, interestRate, months, payment, globals>>

ConventionalPay ==
    /\ pc = "L40"
    /\ payment' = ConventionalPayment(libm, principle, interest, months)
    /\ pc' = "L41"
    /\ UNCHANGED <<libm, input, principle, interestRate, months, interest, globals>>

\* line 41 returns; line 48 stores the string
ConventionalReturn ==
    /\ pc = "L41"
    /\ conventionalPayment' = ConventionalText(payment)
    /\ principle' = Undefined
    /\ interestRate' = Undefined
    /\ months' = 0
    /\ interest' = Undefined
    /\ payment' = Undefined
    /\ pc' = "L54"
    /\ UNCHANGED <<libm, input, interestOnlyPayment, console>>

\* line 54: console.log(interestOnlyPayment)
LogInterestOnly ==
    /\ pc = "L54"
    /\ console' = Append(console, interestOnlyPayment.t)
    /\ pc' = "L55"
    /\ UNCHANGED <<libm, input, locals, interestOnlyPayment, conventionalPayment>>

\* line 55: console.log(conventionalPayment)
LogConventional ==
    /\ pc = "L55"
    /\ console' = Append(console, conventionalPayment.t)
    /\ pc' = "end"
    /\ UNCHANGED <<libm, input, locals, interestOnlyPayment, conventionalPayment>>

\* The functions are called again with the same arguments (a second pass over
\* lines 44 to 55); what the first pass returned stays in the script's variables.
CallAgain ==
    /\ pc = "end"
    /\ console' = <<>>
    /\ pc' = "L44"
    /\ UNCHANGED <<libm, input, locals, interestOnlyPayment, conventionalPayment>>

Next ==
    \/ CallInterestOnly
    \/ InterestOnlyRate
    \/ InterestOnlyPay
    \/ InterestOnlyReturn
    \/ CallConventional
    \/ ConventionalRate
    \/ ConventionalPay
    \/ ConventionalReturn
    \/ LogInterestOnly
    \/ LogConventional
    \/ CallAgain

Spec == Init /\ [][Next]_vars

(***************************************************************************)
(* Exact arithmetic for the properties: a dyadic number <<M, E>> is        *)
(* M * 2^E.  The properties compare what the code computed with the        *)
(* real-number formulas without rounding anything.                         *)
(***************************************************************************)
DyInt(n) == <<NatToBig(n), 0>>
DyOf(v) == IF v.k = "fin" THEN <<v.m, v.e>> ELSE <<<<>>, 0>>
DyMul(u, v) == <<BigMul(u[1], v[1]), u[2] + v[2]>>
DyScale(u, bits) == <<u[1], u[2] + bits>>
DyAdd(u, v) ==
    LET lowE == Min(u[2], v[2])
    IN  <<BigAdd(Shl(u[1], u[2] - lowE), Shl(v[1], v[2] - lowE)), lowE>>
\* -1, 0 or 1 as u < v, u = v or u > v
DyCmp(u, v) ==
    LET lowE == Min(u[2], v[2])
    IN  BigCmp(Shl(u[1], u[2] - lowE), Shl(v[1], v[2] - lowE))
\* u - v for u >= v
DySub(u, v) ==
    LET lowE == Min(u[2], v[2])
    IN  <<BigSub(Shl(u[1], u[2] - lowE), Shl(v[1], v[2] - lowE)), lowE>>

\* v is a Number that is not negative: +0 or a positive finite value
IsNonNegativeNumber(v) == (v.k = "zero" \/ v.k = "fin") /\ (v.k = "fin" => v.s = 0)

\* v = num / den exactly (num >= 0, den > 0 integers)
EqualsRatio(v, num, den) ==
    /\ IsNonNegativeNumber(v)
    /\ DyCmp(DyMul(DyOf(v), DyInt(den)), DyInt(num)) = 0

\* |v - num / den| <= (num / den) / 2^bits
WithinRatio(v, num, den, bits) ==
    LET have == DyMul(DyOf(v), DyInt(den))
        want == DyInt(num)
    IN  /\ IsNonNegativeNumber(v)
        /\ DyCmp(DyScale(have, bits), DyAdd(DyScale(want, bits), want)) <= 0
        /\ DyCmp(DyScale(want, bits), DyAdd(DyScale(have, bits), want)) <= 0

ValidInterestOnly == input.p > 0 /\ input.r >= 0
ValidConventional == input.p > 0 /\ input.r >= 0 /\ input.n > 0
IsLabInput == input.p = LabPrinciple /\ input.r = LabInterest /\ input.n = LabMonths

(***************************************************************************)
(* C1 (as claimed): for principal > 0 and rate >= 0 the interest-only      *)
(* payment equals principal * rate / 1200 exactly.                         *)
(***************************************************************************)
C1_ExactInterestOnly ==
    (pc = "L27" /\ ValidInterestOnly)
        => EqualsRatio(payment, input.p * input.r, RateDivisor)

(***************************************************************************)
(* C1 (amended): for principal > 0 and rate >= 0 the interest-only payment *)
(* is principal * rate / 1200 up to the two binary64 roundings of          *)
(* principle * (interestRate / 1200): it differs from it by at most        *)
(* 2^-51 of its value; for principal 30000 and rate 5 it is exactly 125    *)
(* and the function returns "The interest only loan payment is 125.00".    *)
(***************************************************************************)
RoundingBits == Precision - 2

C1_InterestOnlyWithinRounding ==
    /\ (pc = "L27" /\ ValidInterestOnly)
           => WithinRatio(payment, input.p * input.r, RateDivisor, RoundingBits)
    /\ (pc = "L27" /\ IsLabInput) => payment = FromInt(125)
    /\ (pc = "L48" /\ IsLabInput)
           => interestOnlyPayment = Str("The interest only loan payment is 125.00")

\* a valid call whose payment is not principal * rate / 1200: principal 1, rate 1
C1_Witness ==
    /\ pc = "L27" /\ input.p = 1 /\ input.r = 1
    /\ payment.k = "fin"
    /\ ~EqualsRatio(payment, 1, RateDivisor)

(***************************************************************************)
(* C2: for principal > 0 and months > 0 the amortized payment at rate 0 is *)
(* principal / months, and is not NaN or infinite.                         *)
(***************************************************************************)
C2_ZeroRateStraightLine ==
    (pc = "L41" /\ ValidConventional /\ input.r = 0)
        => /\ payment.k = "fin"
           /\ WithinRatio(payment, input.p, input.n, RoundingBits)

(***************************************************************************)
(* C3: for invalid input (principal <= 0 or rate < 0, and for the          *)
(* amortized function also months <= 0) a function is rejected before it   *)
(* computes anything, and no payment is returned.                          *)
(***************************************************************************)
C3_InvalidInputRejected ==
    /\ ~ValidInterestOnly
           => /\ pc \notin {"L26", "L27"}
              /\ interestOnlyPayment = Undefined
    /\ ~ValidConventional
           => /\ pc \notin {"L40", "L41"}
              /\ conventionalPayment = Undefined

(***************************************************************************)
(* C5: for principal 30000, rate 5 and 180 months the amortized payment    *)
(* rounded to 2 decimals is 237.24, the function returns "The conventional *)
(* loan payment is 237.24" and that is the line written to the console.    *)
(***************************************************************************)
C5_LabConventionalPayment ==
    IsLabInput =>
        /\ pc = "L41" => ToFixed2(payment) = "237.24"
        /\ conventionalPayment \in {Undefined, Str("The conventional loan payment is 237.24")}
        /\ Len(console) = 2 => console[2] = "The conventional loan payment is 237.24"

C5_Witness ==
    /\ IsLabInput
    /\ pc = "end"
    /\ console = <<"The interest only loan payment is 125.00",
                   "The conventional loan payment is 237.24">>

(***************************************************************************)
(* C7: for valid input (principal > 0, rate >= 0, months a positive        *)
(* integer) the payment either function computes is a non-negative number. *)
(***************************************************************************)
C7_PaymentNonNegative ==
    /\ (pc = "L27" /\ ValidInterestOnly) => IsNonNegativeNumber(payment)
    /\ (pc = "L41" /\ ValidConventional) => IsNonNegativeNumber(payment)

(***************************************************************************)
(* The amortization formula in exact arithmetic.  With r = rate / 1200,    *)
(*   (principal * r) / (1 - (1 + r)^(-months))                             *)
(*      = principal * rate * X / (1200 * (X - Y)),                         *)
(* X = (1200 + rate)^months and Y = 1200^months, both integers.            *)
(***************************************************************************)
RECURSIVE ExactPowFrom(_, _, _, _)
ExactPowFrom(x, bs, i, acc) ==
    IF i > Len(bs) THEN acc
    ELSE LET sq  == BigMul(acc, acc)
             nxt == IF bs[i] = 1 THEN BigMul(sq, x) ELSE sq
         IN  IF Len(nxt) > 0 THEN ExactPowFrom(x, bs, i + 1, nxt) ELSE <<>>

\* b^n for integers b >= 1 and n >= 1
ExactPow(b, n) == ExactPowFrom(NatToBig(b), Bits(n), 2, NatToBig(b))

\* enclosures of X and Y: dyadic numbers not above (up = FALSE) or not below them
GrowthX(up) == PowBound(up, DyInt(RateDivisor + input.r), input.n)
GrowthY(up) == PowBound(up, DyInt(RateDivisor), input.n)

\* u * den - num is -1: negative, 0: zero, 1: positive (u, num and den dyadic)
CmpRatio(u, num, den) == DyCmp(DyMul(u, den), num)

\* numerator and divisor of a ratio not above (up = FALSE) or not below the formula
AmortizedNum(up) == DyMul(DyInt(input.p * input.r), GrowthX(~up))
AmortizedDen(up) == DyMul(DyInt(RateDivisor), DySub(GrowthX(~up), GrowthY(up)))

\* v is not outside the enclosure of the formula's value
InAmortizedEnclosure(v) ==
    /\ IsNonNegativeNumber(v)
    /\ CmpRatio(DyOf(v), AmortizedNum(FALSE), AmortizedDen(FALSE)) >= 0
    /\ CmpRatio(DyOf(v), AmortizedNum(TRUE), AmortizedDen(TRUE)) <= 0

\* v is the formula's value exactly
EqualsAmortized(v) ==
    /\ InAmortizedEnclosure(v)
    /\ LET X == ExactPow(RateDivisor + input.r, input.n)
           Y == ExactPow(RateDivisor, input.n)
       IN  DyCmp(DyMul(DyOf(v), <<BigMulSmall(BigSub(X, Y), RateDivisor), 0>>),
                 <<BigMul(NatToBig(input.p * input.r), X), 0>>) = 0

\* |v - F| <= F / 2^bits for the formula's value F
NearAmortized(v, bits) ==
    /\ IsNonNegativeNumber(v)
    /\ CmpRatio(DyScale(DyOf(v), bits),
                DyAdd(DyScale(AmortizedNum(FALSE), bits), AmortizedNum(FALSE)),
                AmortizedDen(FALSE)) <= 0
    /\ CmpRatio(DyAdd(DyScale(DyOf(v), bits), DyOf(v)),
                DyScale(AmortizedNum(TRUE), bits),
                AmortizedDen(TRUE)) >= 0

PositiveConventional == input.p > 0 /\ input.r > 0 /\ input.n > 0

(***************************************************************************)
(* C4 (as claimed): for principal > 0, rate > 0 and a positive integer     *)
(* term the amortized payment equals                                       *)
(* (principal * r) / (1 - (1 + r)^(-months)), r = rate / 1200.             *)
(***************************************************************************)
C4_ExactAmortized ==
    (pc = "L41" /\ PositiveConventional)
        => EqualsAmortized(payment)

(***************************************************************************)
(* C4 (amended): for principal > 0, a rate of at least 1 percent and a     *)
(* positive integer term the amortized payment is a positive finite number *)
(* that differs from (principal * r) / (1 - (1 + r)^(-months)),            *)
(* r = rate / 1200, by at most 2^-36 of its value: the code's form         *)
(* 1 - (1 / (1 + r))^months is the same real number as the specified form, *)
(* and binary64 evaluates it with rounding.                                *)
(***************************************************************************)
C4_AmortizedWithinRounding ==
    (pc = "L41" /\ PositiveConventional)
        => /\ payment.k = "fin"
           /\ NearAmortized(payment, 36)

\* an amortized payment that is not the formula's value: the lab's 30000, 5, 180
C4_Witness ==
    /\ pc = "L41" /\ IsLabInput
    /\ payment.k = "fin"
    /\ ~InAmortizedEnclosure(payment)

(***************************************************************************)
(* C6: a function called again with the same arguments returns the same    *)
(* value, whatever was called before: when a call returns and the script   *)
(* still holds the value an earlier call with these arguments returned,    *)
(* the value returned now is that value.                                   *)
(***************************************************************************)
SameAsEarlierCall ==
    /\ (pc = "L27" /\ interestOnlyPayment # Undefined)
           => interestOnlyPayment' = interestOnlyPayment
    /\ (pc = "L41" /\ conventionalPayment # Undefined)
           => conventionalPayment' = conventionalPayment

ReturnsThePayment ==
    /\ pc = "L27" => interestOnlyPayment' = payment
    /\ pc = "L41" => conventionalPayment' = payment

C8_ReturnsUnrounded == [][ReturnsThePayment]_vars

\* the numeral with two decimals of n hundredths
Numeral(n) ==
    DecStr(BigDivSmall(n, 100)) \o "."
        \o Digit(BigModSmall(n, 100) \div 10) \o Digit(BigModSmall(n, 100) % 10)

\* text is label followed by the numeral of a number of hundredths that is
\* at most half a hundredth away from v (v >= 0)
IsRoundedText(text, label, v) ==
    LET c     == DyMul(DyOf(v), DyInt(100))
        floor == IF c[2] >= 0 THEN Shl(c[1], c[2]) ELSE Shr(c[1], 0 - c[2])
    IN  \E n \in {floor, BigAdd(floor, <<1>>)} :
            /\ text = label \o Numeral(n)
            /\ DyCmp(DyScale(c, 1), <<BigAdd(Shl(n, 1), <<1>>), 0>>) <= 0
            /\ DyCmp(DyAdd(DyScale(c, 1), DyInt(1)), <<Shl(n, 1), 0>>) >= 0

(***************************************************************************)
(* C8 (amended): each function itself returns the display string, "The     *)
(* interest only loan payment is <payment>" or "The conventional loan      *)
(* payment is <payment>", with the payment rounded to 2 decimal places by  *)
(* toFixed(2) inside the function; the caller writes the returned string   *)
(* to the console unchanged, and the unrounded payment is never returned.  *)
(***************************************************************************)
ReturnsTheRoundedText ==
    /\ pc = "L27" => interestOnlyPayment'.k = "string"
    /\ pc = "L41" => conventionalPayment'.k = "string"
    /\ (pc = "L27" /\ ValidInterestOnly)
           => IsRoundedText(interestOnlyPayment'.t,
                            "The interest only loan payment is ", payment)
    /\ (pc = "L41" /\ PositiveConventional)
           => IsRoundedText(conventionalPayment'.t,
                            "The conventional loan payment is ", payment)
    /\ pc = "L54" => console' = <<interestOnlyPayment.t>>
    /\ pc = "L55" => console' = <<interestOnlyPayment.t, conventionalPayment.t>>

C8_ReturnsRoundedText == [][ReturnsTheRoundedText]_vars

\* principal 3 at rate 5: the payment 0.0125 was returned as the text "... 0.01"
C8_Witness ==
    /\ pc = "L48"
    /\ input.p = 3 /\ input.r = 5
    /\ interestOnlyPayment = Str("The interest only loan payment is 0.01")

(***************************************************************************)
(* C9 (as claimed): for principal > 0, rate > 0 and a positive integer     *)
(* term the amortized payment is strictly greater than the interest-only   *)
(* payment for the same principal and rate.                                *)
(***************************************************************************)
InterestOnlyOfInput ==
    InterestOnlyPayment(FromInt(input.p), MonthlyRate(FromInt(input.r)))

NotBelow(a, b) ==
    /\ IsNonNegativeNumber(a)
    /\ IsNonNegativeNumber(b)
    /\ DyCmp(DyOf(a), DyOf(b)) >= 0

StrictlyAbove(a, b) == NotBelow(a, b) /\ DyCmp(DyOf(a), DyOf(b)) > 0

C9_StrictlyGreater ==
    (pc = "L41" /\ PositiveConventional)
        => StrictlyAbove(payment, InterestOnlyOfInput)

(***************************************************************************)
(* C9 (amended): for principal > 0, a rate of at least 1 percent and a     *)
(* positive integer term the amortized payment is never less than the      *)
(* interest-only payment for the same principal and rate, and it is        *)
(* strictly greater whenever (1 + rate / 1200)^months is below 2^53; for   *)
(* larger growth binary64 can compute the two payments equal.              *)
(***************************************************************************)
GrowthBelowPrecision == DyCmp(GrowthX(FALSE), DyScale(GrowthY(TRUE), Precision)) < 0

C9_NotLessAndGreaterInRange ==
    (pc = "L41" /\ PositiveConventional)
        => /\ NotBelow(payment, InterestOnlyOfInput)
           /\ GrowthBelowPrecision => StrictlyAbove(payment, InterestOnlyOfInput)

\* rate 1200 over 180 months: the amortized payment equals the interest-only one
C9_Witness ==
    /\ pc = "L41"
    /\ input.p > 0 /\ input.r = RateDivisor /\ input.n = LabMonths
    /\ payment = InterestOnlyOfInput

(***************************************************************************)
(* C10 (as claimed): for principal > 0, rate > 0 and a positive integer    *)
(* term the amortized payment times the months is at least the principal,  *)
(* and for a term of 1 month it equals principal * (1 + rate / 1200).      *)
(***************************************************************************)
RepaysPrincipal ==
    /\ IsNonNegativeNumber(payment)
    /\ DyCmp(DyMul(DyOf(payment), DyInt(input.n)), DyInt(input.p)) >= 0

C10_RepaysAndOneMonthExact ==
    (pc = "L41" /\ PositiveConventional)
        => /\ RepaysPrincipal
           /\ input.n = 1
                  => EqualsRatio(payment, input.p * (RateDivisor + input.r), RateDivisor)

(***************************************************************************)
(* C10 (amended): for principal > 0, a rate of at least 1 percent and a    *)
(* positive integer term the amortized payment times the months is at      *)
(* least the principal, and for a term of 1 month the payment differs from *)
(* principal * (1 + rate / 1200) by at most 2^-36 of its value.            *)
(***************************************************************************)
C10_RepaysAndOneMonthWithinRounding ==
    (pc = "L41" /\ PositiveConventional)
        => /\ RepaysPrincipal
           /\ input.n = 1
                  => WithinRatio(payment, input.p * (RateDivisor + input.r),
                                 RateDivisor, 36)

\* a one-month loan whose payment is not principal * (1 + rate / 1200)
C10_Witness ==
    /\ pc = "L41"
    /\ input.p = 1 /\ input.r = 1 /\ input.n = 1
    /\ payment.k = "fin"
    /\ ~EqualsRatio(payment, RateDivisor + 1, RateDivisor)

=============================================================================
